---- MODULE Spec2Model ----
(***************************************************************************)
(* The compressed prefix tree of skbio/util/trie.py: _CompressedNode and   *)
(* CompressedTrie.  A string is a sequence of one-character strings; a     *)
(* Python dict is a sequence of entries [k, v] in insertion order (the     *)
(* order in which a dict is iterated); a Python list is a sequence.        *)
(***************************************************************************)
EXTENDS Integers, Sequences, FiniteSets, TLC

VARIABLES root, hist

vars == <<root, hist>>

(* ------------------------------ bounds -------------------------------- *)

\* longest key passed to insert by a caller
MaxLen == 3

\* most insert calls made on one trie after its construction
MaxInserts == 3

\* the characters of the keys passed to insert by a caller
Alphabet == {"a", "b"}

\* every string over Alphabet of length 0..MaxLen
Keys == UNION {[1..n -> Alphabet] : n \in 0..MaxLen}

(* ----------------------- strings, lists, dicts ------------------------ *)

\* s[i], 0-based
At(s, i) == s[i + 1]

\* s[i:]
From(s, i) == SubSeq(s, i + 1, Len(s))

\* s[:i]
Upto(s, i) == SubSeq(s, 1, i)

\* min(a, b)
Min(a, b) == IF a <= b THEN a ELSE b

\* k in d
DictHas(d, k) == \E i \in 1..Len(d) : d[i].k = k

\* d[k], for k in d
DictGet(d, k) == d[CHOOSE i \in 1..Len(d) : d[i].k = k].v

\* d[k] = v: an existing key keeps its place, a new key goes last
DictSet(d, k, v) ==
    IF DictHas(d, k)
    THEN [i \in 1..Len(d) |-> IF d[i].k = k THEN [k |-> k, v |-> v] ELSE d[i]]
    ELSE Append(d, [k |-> k, v |-> v])

\* {k1: v1, k2: v2}
DictLiteral2(k1, v1, k2, v2) == DictSet(DictSet(<<>>, k1, v1), k2, v2)

\* sum(s) for a list of numbers
RECURSIVE Sum(_)
Sum(s) == IF s = <<>> THEN 0 ELSE Head(s) + Sum(Tail(s))

(* --------------------------- _CompressedNode -------------------------- *)

\* _CompressedNode(key, values): "values or []" is values itself for a list
CompressedNode(key, values) ==
    [key |-> key, values |-> values, children |-> <<>>]

\* __nonzero__: the truth value of a node in "if node:" (an interpreter that
\* reads __len__ instead gives the same answer for every child a trie stores,
\* whose subtree holds at least one value)
CompressedNode_nonzero(self) ==
    self.key # <<>> \/ Len(self.values) > 0 \/ Len(self.children) > 0

\* __len__: the number of values in the subtree
RECURSIVE CompressedNode_len(_)
CompressedNode_len(self) ==
    Sum([i \in 1..Len(self.children) |-> CompressedNode_len(self.children[i].v)])
        + Len(self.values)

\* size: the number of nodes in the subtree
RECURSIVE CompressedNode_size(_)

\* variant of size: the node itself is not counted
SizeNotCountingSelf(self) ==
    Sum([i \in 1..Len(self.children) |-> CompressedNode_size(self.children[i].v)])

CompressedNode_size(self) ==
    Sum([i \in 1..Len(self.children) |-> CompressedNode_size(self.children[i].v)])
        + 1

\* mapping.update(other)
RECURSIVE DictUpdate(_, _)
DictUpdate(d, other) ==
    IF other = <<>>
    THEN d
    ELSE DictUpdate(DictSet(d, Head(other).k, Head(other).v), Tail(other))

\* variant of the "get largest group" loop: a later group of the same length
\* replaces the one found
RECURSIVE LargestGroupLastOnTies(_, _, _, _)
LargestGroupLastOnTies(mapping, i, n, key_largest) ==
    IF i > Len(mapping)
    THEN key_largest
    ELSE IF Len(mapping[i].v) >= n
    THEN LargestGroupLastOnTies(mapping, i + 1, Len(mapping[i].v), i)
    ELSE LargestGroupLastOnTies(mapping, i + 1, n, key_largest)

\* prefix_map's "get largest group" loop, from entry i on: the position in
\* mapping of the entry of key_largest, 0 while key_largest is None
RECURSIVE LargestGroup(_, _, _, _)
LargestGroup(mapping, i, n, key_largest) ==
    IF i > Len(mapping)
    THEN key_largest
    ELSE IF Len(mapping[i].v) > n
    THEN LargestGroup(mapping, i + 1, Len(mapping[i].v), i)
    ELSE LargestGroup(mapping, i + 1, n, key_largest)

\* the result of prefix_map: the mapping returned, or the exception raised
Returned(mapping) == [raised |-> "", mapping |-> mapping]
Raised(exception) == [raised |-> exception, mapping |-> <<>>]

RECURSIVE CompressedNode_prefix_map(_)

\* prefix_map's loop over the children, from child i on
RECURSIVE MergeChildren(_, _, _)
MergeChildren(children, i, mapping) ==
    IF i > Len(children)
    THEN Returned(mapping)
    ELSE LET child_map == CompressedNode_prefix_map(children[i].v)
         IN  IF child_map.raised # ""
             THEN child_map
             ELSE MergeChildren(children, i + 1,
                                DictUpdate(mapping, child_map.mapping))

\* variant of the leaf case: the last value stands for the group
PrefixMapLeafLastFirst(self) ==
    IF Len(self.values) = 0
    THEN Raised("IndexError")
    ELSE Returned(<< [k |-> self.values[Len(self.values)],
                      v |-> SubSeq(self.values, 1, Len(self.values) - 1)] >>)

\* variant of the leaf case: the group is the whole list, not values[1:]
PrefixMapLeafWholeList(self) ==
    IF Len(self.values) = 0
    THEN Raised("IndexError")
    ELSE Returned(<< [k |-> self.values[1], v |-> self.values] >>)

\* prefix_map, "we have a leaf": values[0] of an empty list raises IndexError
PrefixMapLeaf(self) ==
    IF Len(self.values) = 0
    THEN Raised("IndexError")
    ELSE Returned(<< [k |-> self.values[1], v |-> Tail(self.values)] >>)

\* prefix_map
CompressedNode_prefix_map(self) ==
    IF Len(self.children) = 0
    THEN PrefixMapLeaf(self)
    ELSE LET merged == MergeChildren(self.children, 1, <<>>)
             key_largest == LargestGroup(merged.mapping, 1, -1, 0)
         IN  IF merged.raised # ""
             THEN merged
             ELSE IF key_largest = 0
             THEN Raised("KeyError")
             ELSE Returned([merged.mapping EXCEPT
                               ![key_largest].v = @ \o self.values])

\* insert's scan: while index < length and not split_node
RECURSIVE InsertScan(_, _, _, _, _)
InsertScan(key, node_key, length, index, split_node) ==
    IF index < length /\ ~split_node
    THEN InsertScan(key, node_key, length, index + 1,
                    At(key, index) # At(node_key, index))
    ELSE [index |-> index, split_node |-> split_node]

\* the index at which the node is split: the scan's index, decremented
SplitIndex(index) == index - 1

\* variant of the split: the old key node is not given the node's children
InsertSplitDropsChildren(self, key, value, index) ==
    LET i == SplitIndex(index)
    IN  [key |-> Upto(self.key, i),
         values |-> <<>>,
         children |-> DictLiteral2(At(key, i), CompressedNode(From(key, i), <<value>>),
                                   At(self.key, i),
                                   CompressedNode(From(self.key, i), self.values))]

\* variant of the split: the old key node is not given the node's values
InsertSplitDropsValues(self, key, value, index) ==
    LET i == SplitIndex(index)
    IN  [key |-> Upto(self.key, i),
         values |-> <<>>,
         children |-> DictLiteral2(At(key, i), CompressedNode(From(key, i), <<value>>),
                                   At(self.key, i),
                                   [CompressedNode(From(self.key, i), <<>>)
                                       EXCEPT !.children = self.children])]

\* insert, "if split_node": index is the scan's index
InsertSplit(self, key, value, index) ==
    LET i == SplitIndex(index)
        new_key_node == CompressedNode(From(key, i), <<value>>)
        old_key_node == [CompressedNode(From(self.key, i), self.values)
                            EXCEPT !.children = self.children]
    IN  [key |-> Upto(self.key, i),
         values |-> <<>>,
         children |-> DictLiteral2(At(key, i), new_key_node,
                                   At(self.key, i), old_key_node)]

\* variant of the exact match: the value goes to the front of the list
InsertExactFront(self, value) == [self EXCEPT !.values = <<value>> \o @]

\* insert, "the new key matches node key exactly"
InsertExact(self, value) == [self EXCEPT !.values = Append(@, value)]

\* variant of the shorter key: the lower node keeps the whole old key
InsertShorterWholeKey(self, key, value, index) ==
    [key |-> key,
     values |-> <<value>>,
     children |-> DictSet(<<>>, At(self.key, index),
                          [CompressedNode(self.key, self.values)
                              EXCEPT !.children = self.children])]

\* variant of the shorter key: the node's values stay and the new one is added
InsertShorterKeepsValues(self, key, value, index) ==
    [key |-> key,
     values |-> Append(self.values, value),
     children |-> DictSet(<<>>, At(self.key, index),
                          [CompressedNode(From(self.key, index), <<>>)
                              EXCEPT !.children = self.children])]

\* variant of the shorter key: the lower node is not given the node's values
InsertShorterDropsValues(self, key, value, index) ==
    [key |-> key,
     values |-> <<value>>,
     children |-> DictSet(<<>>, At(self.key, index),
                          [CompressedNode(From(self.key, index), <<>>)
                              EXCEPT !.children = self.children])]

\* insert, "key shorter than node key"
InsertShorter(self, key, value, index) ==
    LET lower_node == [CompressedNode(From(self.key, index), self.values)
                          EXCEPT !.children = self.children]
    IN  [key |-> key,
         values |-> <<value>>,
         children |-> DictSet(<<>>, At(self.key, index), lower_node)]

\* insert, "new key longer than current node key", no truthy child: a new node
InsertNewChild(self, key, value, index) ==
    [self EXCEPT !.children =
        DictSet(@, At(key, index), CompressedNode(From(key, index), <<value>>))]

\* insert
RECURSIVE CompressedNode_insert(_, _, _)
CompressedNode_insert(self, key, value) ==
    LET node_key_len == Len(self.key)
        length == Min(node_key_len, Len(key))
        scan == InsertScan(key, self.key, length, 0, FALSE)
        index == scan.index
    IN  IF scan.split_node
        THEN InsertSplit(self, key, value, index)
        ELSE IF index = Len(self.key) /\ index = Len(key)
        THEN InsertExact(self, value)
        ELSE IF index < node_key_len
        THEN InsertShorter(self, key, value, index)
        ELSE IF DictHas(self.children, At(key, index))
                /\ CompressedNode_nonzero(DictGet(self.children, At(key, index)))
        THEN [self EXCEPT !.children =
                DictSet(@, At(key, index),
                        CompressedNode_insert(DictGet(self.children, At(key, index)),
                                              From(key, index), value))]
        ELSE InsertNewChild(self, key, value, index)

\* find's scan: while index < min_length and not keys_diff
RECURSIVE FindScan(_, _, _, _, _)
FindScan(key, node_key, min_length, index, keys_diff) ==
    IF index < min_length /\ ~keys_diff
    THEN FindScan(key, node_key, min_length, index + 1,
                  At(key, index) # At(node_key, index))
    ELSE [index |-> index, keys_diff |-> keys_diff]

\* find
RECURSIVE CompressedNode_find(_, _)
CompressedNode_find(self, key) ==
    IF Len(key) = 0
    THEN self.values
    ELSE LET min_length == Min(Len(key), Len(self.key))
             scan == FindScan(key, self.key, min_length, 0, FALSE)
             index == scan.index
         IN  IF scan.keys_diff
             THEN <<>>
             ELSE IF index = Len(key)
             THEN self.values
             ELSE IF DictHas(self.children, At(key, index))
                     /\ CompressedNode_nonzero(DictGet(self.children, At(key, index)))
             THEN CompressedNode_find(DictGet(self.children, At(key, index)),
                                      From(key, index))
             ELSE <<>>

(* ---------------------------- CompressedTrie -------------------------- *)

\* insert
CompressedTrie_insert(r, key, value) == CompressedNode_insert(r, key, value)

\* find
CompressedTrie_find(r, key) == CompressedNode_find(r, key)

\* __len__
CompressedTrie_len(r) == CompressedNode_len(r)

\* size
CompressedTrie_size(r) == CompressedNode_size(r)

\* prefix_map
CompressedTrie_prefix_map(r) == CompressedNode_prefix_map(r)

\* __init__'s loop over pair_list, from the trie built so far
RECURSIVE InsertAll(_, _)
InsertAll(r, pair_list) ==
    IF pair_list = <<>>
    THEN r
    ELSE InsertAll(CompressedTrie_insert(r, Head(pair_list).key, Head(pair_list).value),
                   Tail(pair_list))

\* __init__
CompressedTrie_init(pair_list) == InsertAll(CompressedNode(<<>>, <<>>), pair_list)

(* ------------------------------ the system ---------------------------- *)

Pair(key, value) == [key |-> key, value |-> value]

\* the pair list of the module's documentation; the value "n" is n
DocPairs ==
    << Pair(<<"a","b">>, 0),
       Pair(<<"a","b","a","b","a","b","a">>, 1),
       Pair(<<"a","b","a","b">>, 2),
       Pair(<<"b","a","b","a">>, 3),
       Pair(<<"a","b","a","b","a","a">>, 4),
       Pair(<<"a">>, 5),
       Pair(<<"a","b","a","b","a","b","a">>, 6),
       Pair(<<"b","a","b">>, 7),
       Pair(<<"b","a","b","b","a">>, 8) >>

\* a pair list whose second key leaves the first inside a node's segment
SplitPairs == << Pair(<<"a","b">>, 1), Pair(<<"a","c">>, 2) >>

\* a pair list that gives two keys the same value identifier
SharedValuePairs == << Pair(<<"a">>, 1), Pair(<<"b">>, 1) >>

\* the pair lists a trie is constructed from: none, or a list above
PairLists == {<<>>, DocPairs, SplitPairs, SharedValuePairs}

\* CompressedTrie(pair_list); hist is every pair inserted so far, in order
Init ==
    \E pair_list \in PairLists :
        /\ root = CompressedTrie_init(pair_list)
        /\ hist = pair_list

\* t.insert(key, value)
Insert(key, value) ==
    /\ Len(hist) < MaxInserts
    /\ root' = CompressedTrie_insert(root, key, value)
    /\ hist' = Append(hist, Pair(key, value))

\* a caller inserts any key; the value is an identifier not used before
Next == \E key \in Keys : Insert(key, Len(hist) + 1)

Spec == Init /\ [][Next]_vars

\* CompressedTrie(pair_list) for any list of up to MaxInserts pairs of caller
\* keys, the value of the i-th pair being i
InitOrder ==
    \E n \in 0..MaxInserts :
        \E ks \in [1..n -> Keys] :
            /\ hist = [i \in 1..n |-> Pair(ks[i], i)]
            /\ root = CompressedTrie_init(hist)

\* CompressedTrie(pair_list) for the list with pairs i and i + 1 exchanged
Reorder(i) ==
    /\ hist' = [hist EXCEPT ![i] = hist[i + 1], ![i + 1] = hist[i]]
    /\ root' = CompressedTrie_init(hist')

NextOrder == \E i \in 1..(Len(hist) - 1) : Reorder(i)

\* the tries constructed from the orderings of a pair list
SpecOrder == InitOrder /\ [][NextOrder]_vars

(* ----------------------- vocabulary of the properties ----------------- *)

\* the values of the pairs of h inserted under key k, in the order of h
RECURSIVE ValuesUnder(_, _)
ValuesUnder(h, k) ==
    IF h = <<>>
    THEN <<>>
    ELSE (IF Head(h).key = k THEN <<Head(h).value>> ELSE <<>>)
             \o ValuesUnder(Tail(h), k)

\* the keys inserted so far
InsertedKeys == {hist[i].key : i \in 1..Len(hist)}

\* s is a prefix of t, and shorter
StrictPrefix(s, t) == Len(s) < Len(t) /\ s = Upto(t, Len(s))

\* the keys looked up: every caller key and every prefix of an inserted key
QueryKeys == Keys \cup UNION {{Upto(k, i) : i \in 0..Len(k)} : k \in InsertedKeys}

\* the nodes of the subtree of n
RECURSIVE Nodes(_)
Nodes(n) == {n} \cup UNION {Nodes(n.children[i].v) : i \in 1..Len(n.children)}

\* the nodes of the subtree of n, each with its path key: the segments from
\* the root to it, concatenated (above is the path key of n's parent)
RECURSIVE PathNodes(_, _)
PathNodes(n, above) ==
    {[path |-> above \o n.key, node |-> n]}
        \cup UNION {PathNodes(n.children[i].v, above \o n.key) : i \in 1..Len(n.children)}

\* the elements of a list
Range(s) == {s[i] : i \in 1..Len(s)}

\* two lists hold the same values the same number of times
SameBag(s, t) ==
    /\ Len(s) = Len(t)
    /\ \A x \in Range(s) \cup Range(t) :
          Cardinality({i \in 1..Len(s) : s[i] = x})
              = Cardinality({i \in 1..Len(t) : t[i] = x})

\* prefix_map returned the mapping with exactly the entries of the function m
MapIs(res, m) ==
    /\ res.raised = ""
    /\ Len(res.mapping) = Cardinality(DOMAIN m)
    /\ \A k \in DOMAIN m : DictHas(res.mapping, k) /\ DictGet(res.mapping, k) = m[k]

(* ------------------------------ properties ---------------------------- *)

\* C1: for every key inserted at least once, find returns exactly the values
\* inserted under it, in the order of their insertion
C1_FindReturnsInserted ==
    \A k \in InsertedKeys : CompressedTrie_find(root, k) = ValuesUnder(hist, k)

\* two values under one key, then a strict prefix of that key is inserted,
\* which moves the node holding them down
C1_Witness ==
    /\ Len(hist) = 3
    /\ hist[1].key = hist[2].key
    /\ StrictPrefix(hist[3].key, hist[1].key)
    /\ hist[3].key # <<>>
    /\ CompressedTrie_find(root, hist[1].key) = <<hist[1].value, hist[2].value>>

\* C2: find returns the empty list for every key never inserted, a strict
\* prefix of an inserted key that ends inside a node's segment included
C2_AbsentKeyNotFound ==
    \A k \in QueryKeys \ InsertedKeys : CompressedTrie_find(root, k) = <<>>

\* C3: the count is the number of pairs inserted
C3_CountIsInserts == CompressedTrie_len(root) = Len(hist)

\* three inserts, new and duplicate keys, one of them moving a node down
C3_Witness ==
    /\ Len(hist) = 3
    /\ hist[1].key = hist[2].key
    /\ StrictPrefix(hist[3].key, hist[1].key)
    /\ CompressedTrie_len(root) = 3

\* C4 as stated: after N inserts, 1 <= size <= N + 1
C4_SizeAtMostInsertsPlusOne ==
    /\ 1 <= CompressedTrie_size(root)
    /\ CompressedTrie_size(root) <= Len(hist) + 1

\* C4: after N inserts, size is 1 for N = 0 and 1 <= size <= 2N otherwise
C4_SizeAtMostTwiceInserts ==
    /\ 1 <= CompressedTrie_size(root)
    /\ CompressedTrie_size(root) <= (IF Len(hist) = 0 THEN 1 ELSE 2 * Len(hist))

\* three inserts, two of them splits: the bound is reached
C4_Witness == Len(hist) = 3 /\ CompressedTrie_size(root) = 6

\* C5: on a trie with no insertions size is 1, the count is 0, find returns
\* the empty list for every key and prefix_map returns the empty mapping
C5_EmptyTrie ==
    hist = <<>> =>
        /\ CompressedTrie_size(root) = 1
        /\ CompressedTrie_len(root) = 0
        /\ \A k \in QueryKeys : CompressedTrie_find(root, k) = <<>>
        /\ CompressedTrie_prefix_map(root) = Returned(<<>>)

\* C6: the trie constructed from the documented pair list has the prefix map
\* of 4 groups 1 -> [6, 2, 0, 5], 8 -> [7], 3 -> [], 4 -> []
C6_DocPrefixMap ==
    hist = DocPairs =>
        MapIs(CompressedTrie_prefix_map(root),
              (1 :> <<6, 2, 0, 5>>) @@ (8 :> <<7>>) @@ (3 :> <<>>) @@ (4 :> <<>>))

\* the results of the queries on r1 and r2 agree: find on every key up to the
\* order of the values, the count and the size
SameResults(r1, r2) ==
    /\ CompressedTrie_len(r1) = CompressedTrie_len(r2)
    /\ CompressedTrie_size(r1) = CompressedTrie_size(r2)
    /\ \A k \in QueryKeys :
          \/ CompressedTrie_find(r1, k) = CompressedTrie_find(r2, k)
          \/ SameBag(CompressedTrie_find(r1, k), CompressedTrie_find(r2, k))

\* the pairs of h in the order of their values: under SpecOrder, where the
\* values of the first list are 1..n, the ordering the reorderings started from
ByValue(h) == [i \in 1..Len(h) |-> h[CHOOSE j \in 1..Len(h) : h[j].value = i]]

\* C7: the trie constructed from any ordering of a list of pairs gives the
\* same query results as the trie constructed from the list as first ordered,
\* so the tries of any two orderings give the same results
C7_OrderIndependent == SameResults(root, CompressedTrie_init(ByValue(hist)))

\* an ordering that builds another tree and returns a key's values in
\* another order
C7_Witness ==
    /\ Len(hist) = 3
    /\ hist # ByValue(hist)
    /\ root.children # CompressedTrie_init(ByValue(hist)).children
    /\ \E k \in InsertedKeys :
          CompressedTrie_find(root, k)
              # CompressedTrie_find(CompressedTrie_init(ByValue(hist)), k)

\* segment s and remaining key r first differ at position i, inside both
FirstDifferAt(s, r, i) ==
    /\ i < Len(s)
    /\ i < Len(r)
    /\ Upto(s, i) = Upto(r, i)
    /\ At(s, i) # At(r, i)

\* the node that insert of r into the subtree of n reaches: it goes down while
\* the segment is a strict prefix of what is left of the key and a child is
\* stored under the next character; path is the characters it went down by
RECURSIVE Reached(_, _, _)
Reached(n, r, path) ==
    IF StrictPrefix(n.key, r) /\ DictHas(n.children, At(r, Len(n.key)))
    THEN Reached(DictGet(n.children, At(r, Len(n.key))), From(r, Len(n.key)),
                 Append(path, At(r, Len(n.key))))
    ELSE [node |-> n, rest |-> r, path |-> path]

\* the node found from n by going down by the characters of path
RECURSIVE NodeAt(_, _)
NodeAt(n, path) ==
    IF path = <<>> THEN n ELSE NodeAt(DictGet(n.children, Head(path)), Tail(path))

\* node n as it is after the split at i by the rest r of a key with value v
IsSplitOf(after, n, r, i, v) ==
    /\ after.key = Upto(n.key, i)
    /\ after.values = <<>>
    /\ Len(after.children) = 2
    /\ DictHas(after.children, At(r, i))
    /\ DictGet(after.children, At(r, i))
          = [key |-> From(r, i), values |-> <<v>>, children |-> <<>>]
    /\ DictHas(after.children, At(n.key, i))
    /\ DictGet(after.children, At(n.key, i))
          = [key |-> From(n.key, i), values |-> n.values, children |-> n.children]

\* an insert step whose key first differs from the segment of the node it
\* reaches at i, inside both, leaves that node split at i
SplitStep ==
    LET last == hist'[Len(hist')]
        at == Reached(root, last.key, <<>>)
    IN  \A i \in 0..Len(at.node.key) :
            FirstDifferAt(at.node.key, at.rest, i) =>
                IsSplitOf(NodeAt(root', at.path), at.node, at.rest, i, last.value)

\* "ab" then "ac": a node "a" without values over the children "b" and "c",
\* each with its value; find("a") is empty
SplitPairsTree ==
    hist = SplitPairs =>
        /\ Len(root.children) = 1
        /\ IsSplitOf(root.children[1].v,
                     CompressedNode(<<"a", "b">>, <<1>>), <<"a", "c">>, 1, 2)
        /\ root.children[1].v.key = <<"a">>
        /\ DictGet(root.children[1].v.children, "b").key = <<"b">>
        /\ DictGet(root.children[1].v.children, "c").key = <<"c">>
        /\ CompressedTrie_find(root, <<"a", "b">>) = <<1>>
        /\ CompressedTrie_find(root, <<"a", "c">>) = <<2>>
        /\ CompressedTrie_find(root, <<"a">>) = <<>>

\* C8: insert of a key that first differs from the node's segment at i, inside
\* both, leaves the node with segment s[:i], no values and two children, the
\* new key's rest with the value and the old segment's rest with the old
\* values and children; "ab" then "ac" gives "a" over "b" and "c"
C8_SplitCase == []SplitPairsTree /\ [][SplitStep]_vars

\* the third insert split a node that held a value and a child
C8_Witness ==
    /\ Len(hist) = 3
    /\ StrictPrefix(hist[1].key, hist[2].key)
    /\ \E i \in 0..Len(hist[1].key) : FirstDifferAt(hist[1].key, hist[3].key, i)
    /\ \E n \in Nodes(root) :
          /\ n.values = <<>>
          /\ Len(n.children) = 2
          /\ n.children[1].v = CompressedNode(n.children[1].v.key, <<3>>)
          /\ n.children[2].v.values = <<1>>
          /\ Len(n.children[2].v.children) = 1

\* C9: the root's segment is empty, every other node's segment is not, every
\* child is stored under the first character of its segment and no two
\* children of a node start with the same character
C9_ValidTrie ==
    /\ root.key = <<>>
    /\ \A n \in Nodes(root) :
          \A i \in 1..Len(n.children) :
              /\ n.children[i].v.key # <<>>
              /\ n.children[i].k = At(n.children[i].v.key, 0)
              /\ \A j \in 1..Len(n.children) :
                    j # i => At(n.children[j].v.key, 0) # At(n.children[i].v.key, 0)

\* the empty string was inserted and a node below the root was split
C9_Witness ==
    /\ Len(root.values) > 0
    /\ Len(hist) = 3
    /\ \E n \in Nodes(root) : n.key # <<>> /\ Len(n.children) = 2

\* C10: every node holds exactly the values inserted under its path key, in
\* the order of their insertion, and every inserted key is some node's path key
C10_NodeValues ==
    /\ \A pn \in PathNodes(root, <<>>) :
          pn.node.values = ValuesUnder(hist, pn.path)
    /\ \A k \in InsertedKeys : \E pn \in PathNodes(root, <<>>) : pn.path = k

\* two values under one key, then a split of the node holding them
C10_Witness ==
    /\ Len(hist) = 3
    /\ hist[1].key = hist[2].key
    /\ \E i \in 0..Len(hist[1].key) : FirstDifferAt(hist[1].key, hist[3].key, i)
    /\ \E pn \in PathNodes(root, <<>>) :
          /\ pn.path = hist[1].key
          /\ pn.node.values = <<1, 2>>
          /\ Len(pn.node.key) < Len(pn.path)

\* the nodes of the subtree of n that have no children
Leaves(n) == {m \in Nodes(n) : Len(m.children) = 0}

\* C11: after one or more inserts every node without children holds at least
\* one value, and prefix_map raises nothing
C11_LeavesHoldValues ==
    Len(hist) >= 1 =>
        /\ \A n \in Leaves(root) : Len(n.values) >= 1
        /\ CompressedTrie_prefix_map(root).raised = ""

\* three inserts that leave three leaves, one of them a node moved down by a
\* split
C11_Witness ==
    /\ Len(hist) = 3
    /\ Cardinality(Leaves(root)) = 3
    /\ \E i \in 0..Len(hist[1].key) : FirstDifferAt(hist[1].key, hist[2].key, i)
    /\ CompressedTrie_prefix_map(root).raised = ""

\* no two pairs of h have the same value
DistinctValues(h) ==
    \A i, j \in 1..Len(h) : i # j => h[i].value # h[j].value

\* the values inserted so far
InsertedValues == {hist[i].value : i \in 1..Len(hist)}

\* the key the value v was inserted under, for distinct values
KeyOfValue(v) == hist[CHOOSE i \in 1..Len(hist) : hist[i].value = v].key

\* k is an inserted key that is a strict prefix of no inserted key
EndsAtLeaf(k) ==
    /\ k \in InsertedKeys
    /\ \A other \in InsertedKeys : ~StrictPrefix(k, other)

\* C12: with distinct values, every representative of prefix_map is the first
\* value inserted under a key that is a strict prefix of no inserted key, and
\* every member of its group was inserted under that key or a prefix of it
C12_GroupsFollowPrefixes ==
    (Len(hist) >= 1 /\ DistinctValues(hist)) =>
        LET res == CompressedTrie_prefix_map(root)
        IN  /\ res.raised = ""
            /\ \A i \in 1..Len(res.mapping) :
                  /\ res.mapping[i].k \in InsertedValues
                  /\ EndsAtLeaf(KeyOfValue(res.mapping[i].k))
                  /\ ValuesUnder(hist, KeyOfValue(res.mapping[i].k))[1]
                        = res.mapping[i].k
                  /\ \A x \in Range(res.mapping[i].v) :
                        /\ x \in InsertedValues
                        /\ \/ KeyOfValue(x) = KeyOfValue(res.mapping[i].k)
                           \/ StrictPrefix(KeyOfValue(x),
                                           KeyOfValue(res.mapping[i].k))

\* a group that holds a second value of the representative's key and a value
\* of a strict prefix of it
C12_Witness ==
    /\ Len(hist) = 3
    /\ DistinctValues(hist)
    /\ \E i \in 1..Len(CompressedTrie_prefix_map(root).mapping) :
          LET e == CompressedTrie_prefix_map(root).mapping[i]
          IN  /\ Len(e.v) = 2
              /\ KeyOfValue(e.v[1]) = KeyOfValue(e.k)
              /\ StrictPrefix(KeyOfValue(e.v[2]), KeyOfValue(e.k))

\* the path keys of the nodes of the tree that have no children
LeafPaths == {pn.path : pn \in {q \in PathNodes(root, <<>>) : Len(q.node.children) = 0}}

\* the keys of a mapping
MapKeys(mapping) == {mapping[i].k : i \in 1..Len(mapping)}

\* the maps of the children of n have pairwise disjoint keys
ChildMapsDisjoint(n) ==
    \A i, j \in 1..Len(n.children) :
        i # j =>
            MapKeys(CompressedNode_prefix_map(n.children[i].v).mapping)
                \cap MapKeys(CompressedNode_prefix_map(n.children[j].v).mapping) = {}

\* C13: whatever the value identifiers, the maps of the children of a node
\* have disjoint keys and prefix_map has exactly one entry per leaf node
C13_OneEntryPerLeaf ==
    CompressedTrie_prefix_map(root).raised = "" =>
        /\ \A n \in Nodes(root) : ChildMapsDisjoint(n)
        /\ Len(CompressedTrie_prefix_map(root).mapping) = Cardinality(LeafPaths)

\* the position of the longest list of a mapping, the first one on ties
FirstLongest(mapping) ==
    CHOOSE j \in 1..Len(mapping) :
        /\ \A i \in 1..Len(mapping) : Len(mapping[i].v) <= Len(mapping[j].v)
        /\ \A i \in 1..(j - 1) : Len(mapping[i].v) < Len(mapping[j].v)

\* the nodes of the tree that have children and whose children's maps merge
InternalNodes ==
    {n \in Nodes(root) : /\ Len(n.children) > 0
                         /\ MergeChildren(n.children, 1, <<>>).raised = ""}

\* prefix_map at the node n appended n's values to the first longest list of
\* the merged mapping and left every other entry as it was
AppendsToFirstLongest(n) ==
    LET merged == MergeChildren(n.children, 1, <<>>).mapping
        res == CompressedNode_prefix_map(n)
    IN  /\ res.raised = ""
        /\ Len(merged) >= 1
        /\ Len(res.mapping) = Len(merged)
        /\ \A j \in 1..Len(merged) :
              /\ res.mapping[j].k = merged[j].k
              /\ res.mapping[j].v = IF j = FirstLongest(merged)
                                    THEN merged[j].v \o n.values
                                    ELSE merged[j].v
        /\ n.values = <<>> => res.mapping = merged

\* C14: at a node with children prefix_map appends the node's values, in
\* stored order, to the longest list of the merged mapping, the first
\* encountered on ties, and changes no other entry
C14_AppendsToFirstLongest == [](\A n \in InternalNodes : AppendsToFirstLongest(n))

\* a node with one value whose children's maps merge into two lists of the
\* same length
C14_Witness ==
    \E n \in InternalNodes :
        LET merged == MergeChildren(n.children, 1, <<>>).mapping
        IN  /\ Len(n.values) = 1
            /\ Len(merged) = 2
            /\ Len(merged[1].v) = Len(merged[2].v)
            /\ CompressedNode_prefix_map(n).mapping[1].v = n.values
            /\ CompressedNode_prefix_map(n).mapping[2].v = <<>>

(* ------------------- prefix_map over list objects --------------------- *)

\* prefix_map with the lists as objects of a store: a values list of the tree
\* is the object at the path key of its node; values[1:] is a new object, one
\* per leaf and per call; extend changes the object it is called on, and the
\* mapping holds references to objects

\* the values list of the node at a path key; the slice made at a leaf by a call
ValuesAt(path) == [kind |-> "values", call |-> 0, path |-> path]
SliceAt(call, path) == [kind |-> "slice", call |-> call, path |-> path]

\* the store that holds the values lists of the tree r
RECURSIVE TreeStore(_, _)
TreeStore(r, path) ==
    LET RECURSIVE Below(_)
        Below(i) ==
            IF i > Len(r.children)
            THEN ValuesAt(path) :> r.values
            ELSE TreeStore(r.children[i].v, path \o r.children[i].v.key)
                    @@ Below(i + 1)
    IN  Below(1)

\* the result of prefix_map over a store: the mapping of references returned,
\* or the exception raised, and the store it leaves
ReturnedIn(mapping, store) == [raised |-> "", mapping |-> mapping, store |-> store]
RaisedIn(exception, store) == [raised |-> exception, mapping |-> <<>>, store |-> store]

\* a mapping of references, each replaced by the list it refers to
Deref(mapping, store) ==
    [i \in 1..Len(mapping) |-> [k |-> mapping[i].k, v |-> store[mapping[i].v]]]

\* variant of the leaf case: the mapping refers to the node's own list
PrefixMapLeafShared(self, path, call, store) ==
    IF Len(store[ValuesAt(path)]) = 0
    THEN RaisedIn("IndexError", store)
    ELSE ReturnedIn(<< [k |-> store[ValuesAt(path)][1], v |-> ValuesAt(path)] >>,
                    store)

\* prefix_map, "we have a leaf": values[1:] is a new list
PrefixMapLeafIn(self, path, call, store) ==
    IF Len(store[ValuesAt(path)]) = 0
    THEN RaisedIn("IndexError", store)
    ELSE ReturnedIn(<< [k |-> store[ValuesAt(path)][1], v |-> SliceAt(call, path)] >>,
                    store @@ (SliceAt(call, path) :> Tail(store[ValuesAt(path)])))

RECURSIVE PrefixMapIn(_, _, _, _)

\* prefix_map's loop over the children of the node at path, from child i on
RECURSIVE MergeChildrenIn(_, _, _, _, _, _)
MergeChildrenIn(children, i, mapping, path, call, store) ==
    IF i > Len(children)
    THEN ReturnedIn(mapping, store)
    ELSE LET child_map == PrefixMapIn(children[i].v, path \o children[i].v.key,
                                      call, store)
         IN  IF child_map.raised # ""
             THEN child_map
             ELSE MergeChildrenIn(children, i + 1,
                                  DictUpdate(mapping, child_map.mapping),
                                  path, call, child_map.store)

\* prefix_map of the node self at the path key path, in the call numbered call
PrefixMapIn(self, path, call, store) ==
    IF Len(self.children) = 0
    THEN PrefixMapLeafIn(self, path, call, store)
    ELSE LET merged == MergeChildrenIn(self.children, 1, <<>>, path, call, store)
             key_largest == LargestGroup(Deref(merged.mapping, merged.store),
                                         1, -1, 0)
         IN  IF merged.raised # ""
             THEN merged
             ELSE IF key_largest = 0
             THEN RaisedIn("KeyError", merged.store)
             ELSE ReturnedIn(merged.mapping,
                             [merged.store EXCEPT
                                 ![merged.mapping[key_largest].v] =
                                     @ \o merged.store[ValuesAt(path)]])

\* the tree r with the values list of every node read from the store
RECURSIVE WithLists(_, _, _)
WithLists(r, path, store) ==
    [key |-> r.key,
     values |-> store[ValuesAt(path)],
     children |-> [i \in 1..Len(r.children) |->
                     [k |-> r.children[i].k,
                      v |-> WithLists(r.children[i].v,
                                      path \o r.children[i].v.key, store)]]]

\* the first call of prefix_map on the tree, and a call after it
FirstCall == PrefixMapIn(root, root.key, 1, TreeStore(root, root.key))
SecondCall(first) == PrefixMapIn(root, root.key, 2, first.store)

\* C15: prefix_map leaves every node's key, values list and children as they
\* were (find, size and count store nothing), it returns the map computed
\* without a store, and a second call with no insert in between returns an
\* equal map and leaves the first map as it was
C15_ReadOnly ==
    [](LET first == FirstCall
           second == SecondCall(first)
           res == CompressedTrie_prefix_map(root)
       IN  /\ WithLists(root, root.key, first.store) = root
           /\ WithLists(root, root.key, second.store) = root
           /\ first.raised = res.raised
           /\ Deref(first.mapping, first.store) = res.mapping
           /\ second.raised = first.raised
           /\ Deref(second.mapping, second.store) = res.mapping
           /\ Deref(first.mapping, second.store) = res.mapping)

\* prefix_map appended the values of a node with children to the list made at
\* a leaf below it
C15_Witness ==
    /\ Len(hist) = 3
    /\ FirstCall.raised = ""
    /\ \E pn \in PathNodes(root, <<>>) :
          /\ Len(pn.node.children) = 0
          /\ FirstCall.store[SliceAt(1, pn.path)] # Tail(pn.node.values)
          /\ FirstCall.store[ValuesAt(pn.path)] = pn.node.values
          /\ Len(pn.node.values) = 2

(* ---------------------- the calls of insert and find ------------------ *)

\* one call of a node's insert or find: the node's segment and the key passed
Call(self, key) == [node_key |-> self.key, key |-> key]

\* variant of insert's descent: the child is passed the key as it came
RECURSIVE InsertCallsWholeKey(_, _)
InsertCallsWholeKey(self, key) ==
    LET scan == InsertScan(key, self.key, Min(Len(self.key), Len(key)), 0, FALSE)
        index == scan.index
    IN  IF /\ ~scan.split_node
           /\ ~(index = Len(self.key) /\ index = Len(key))
           /\ ~(index < Len(self.key))
           /\ DictHas(self.children, At(key, index))
           /\ CompressedNode_nonzero(DictGet(self.children, At(key, index)))
        THEN << Call(self, key) >>
                \o InsertCallsWholeKey(DictGet(self.children, At(key, index)), key)
        ELSE << Call(self, key) >>

\* the calls of insert that self.insert(key, value) makes, itself first:
\* node.insert(key[index:], value) is reached when the node is not split, the
\* key is not the node's, is not shorter, and the child exists
RECURSIVE InsertCalls(_, _)
InsertCalls(self, key) ==
    LET scan == InsertScan(key, self.key, Min(Len(self.key), Len(key)), 0, FALSE)
        index == scan.index
    IN  IF /\ ~scan.split_node
           /\ ~(index = Len(self.key) /\ index = Len(key))
           /\ ~(index < Len(self.key))
           /\ DictHas(self.children, At(key, index))
           /\ CompressedNode_nonzero(DictGet(self.children, At(key, index)))
        THEN << Call(self, key) >>
                \o InsertCalls(DictGet(self.children, At(key, index)),
                               From(key, index))
        ELSE << Call(self, key) >>

\* the calls of find that self.find(key) makes, itself first:
\* node.find(key[index:]) is reached when the key is not exhausted, does not
\* differ from the segment, is longer than it, and the child exists
RECURSIVE FindCalls(_, _)
FindCalls(self, key) ==
    LET scan == FindScan(key, self.key, Min(Len(key), Len(self.key)), 0, FALSE)
        index == scan.index
    IN  IF /\ Len(key) # 0
           /\ ~scan.keys_diff
           /\ index # Len(key)
           /\ DictHas(self.children, At(key, index))
           /\ CompressedNode_nonzero(DictGet(self.children, At(key, index)))
        THEN << Call(self, key) >>
                \o FindCalls(DictGet(self.children, At(key, index)),
                             From(key, index))
        ELSE << Call(self, key) >>

\* every call but the first was passed a key at least one character shorter
\* than the call before it
EveryStepShortens(calls) ==
    \A i \in 2..Len(calls) : Len(calls[i].key) <= Len(calls[i - 1].key) - 1

\* the calls start at the root with the key; the root passes the key on as it
\* came, every other node passes on a key at least one character shorter, and
\* there are at most len(key) steps into a child
BoundedDescent(calls, key) ==
    /\ calls[1] = [node_key |-> <<>>, key |-> key]
    /\ Len(calls) - 1 <= Len(key)
    /\ Len(calls) >= 2 => calls[2].key = key
    /\ \A i \in 3..Len(calls) : Len(calls[i].key) <= Len(calls[i - 1].key) - 1

\* the key of the insert that led to the next state
InsertedKey == hist'[Len(hist')].key

\* C16 as stated: the insert of a step, and find of its key before and after
\* it, pass a key at least one character shorter at every step into a child,
\* the step from the root included
C16_EveryStepShortens ==
    [][/\ EveryStepShortens(InsertCalls(root, InsertedKey))
       /\ EveryStepShortens(FindCalls(root, InsertedKey))
       /\ EveryStepShortens(FindCalls(root', InsertedKey))]_vars

\* C16: the insert of a step, and find of its key before and after it, end
\* after at most len(key) steps into a child: the root passes the key
\* unchanged and every other node passes a key at least one character shorter
C16_DescentBounded ==
    [][/\ BoundedDescent(InsertCalls(root, InsertedKey), InsertedKey)
       /\ BoundedDescent(FindCalls(root, InsertedKey), InsertedKey)
       /\ BoundedDescent(FindCalls(root', InsertedKey), InsertedKey)]_vars

\* the last insert went two nodes below the root, and find of its key goes
\* one node per character below the root
C16_Witness ==
    /\ Len(hist) = 3
    /\ Len(InsertCalls(CompressedTrie_init(SubSeq(hist, 1, 2)), hist[3].key)) = 3
    /\ Len(FindCalls(root, hist[3].key)) = Len(hist[3].key) + 1
    /\ Len(hist[3].key) = 3

\* the keys and the lists of a mapping in one list: each key, then its list
RECURSIVE Flatten(_)
Flatten(mapping) ==
    IF mapping = <<>>
    THEN <<>>
    ELSE << Head(mapping).k >> \o Head(mapping).v \o Flatten(Tail(mapping))

\* the number of values in the lists of a mapping
RECURSIVE TotalListLength(_)
TotalListLength(mapping) ==
    IF mapping = <<>>
    THEN 0
    ELSE Len(Head(mapping).v) + TotalListLength(Tail(mapping))

\* C17: with distinct values, every inserted value is once in prefix_map, as
\* a representative or in one list, nothing else is in it, and the number of
\* representatives plus the lengths of the lists is count()
C17_PrefixMapPartitions ==
    (Len(hist) >= 1 /\ DistinctValues(hist)) =>
        LET res == CompressedTrie_prefix_map(root)
            flat == Flatten(res.mapping)
        IN  /\ res.raised = ""
            /\ Range(flat) = InsertedValues
            /\ \A x \in InsertedValues :
                  Cardinality({i \in 1..Len(flat) : flat[i] = x}) = 1
            /\ Len(res.mapping) + TotalListLength(res.mapping)
                  = CompressedTrie_len(root)

\* three distinct values: two representatives and one value in a list
C17_Witness ==
    /\ Len(hist) = 3
    /\ DistinctValues(hist)
    /\ CompressedTrie_prefix_map(root).raised = ""
    /\ Len(CompressedTrie_prefix_map(root).mapping) = 2
    /\ TotalListLength(CompressedTrie_prefix_map(root).mapping) = 1
    /\ CompressedTrie_len(root) = 3

\* the strings after which two inserted keys go different ways
BranchingPoints ==
    UNION {{Upto(k1, i) : i \in {j \in 0..(Len(k1) - 1) :
                                   \E k2 \in InsertedKeys : FirstDifferAt(k1, k2, j)}} :
           k1 \in InsertedKeys}

\* the path keys of the nodes of the tree
NodePaths == {pn.path : pn \in PathNodes(root, <<>>)}

\* C18: every node but the root that holds no value has two children or more,
\* and the tree has one node per distinct inserted key and per branching
\* point, and the root
C18_OneNodePerKeyOrBranch ==
    [](/\ \A pn \in PathNodes(root, <<>>) :
             (pn.path # <<>> /\ Len(pn.node.values) = 0)
                 => Len(pn.node.children) >= 2
       /\ NodePaths = InsertedKeys \cup BranchingPoints \cup {<<>>}
       /\ CompressedTrie_size(root)
             = Cardinality(InsertedKeys \cup BranchingPoints \cup {<<>>}))

\* a node below the root that holds no value and stands for a branching point
\* that is no inserted key
C18_Witness ==
    /\ Len(hist) = 3
    /\ \E pn \in PathNodes(root, <<>>) :
          /\ pn.path # <<>>
          /\ Len(pn.node.values) = 0
          /\ Len(pn.node.children) = 2
          /\ pn.path \in BranchingPoints \ InsertedKeys
    /\ CompressedTrie_size(root) = 5

====
